---- MODULE Spec2Model ----
(***************************************************************************)
(* Model of src/src/handler.py: the RunPod serverless handler that drives  *)
(* a ComfyUI server (bootstrap, input staging, workflow parametrization,   *)
(* submission, completion polling, result extraction, encoding, cleanup).  *)
(*                                                                         *)
(* Every invocation of handler() is a thread of control i \in Inv; the     *)
(* module-level global comfyui_process, the subprocesses launched and the  *)
(* ComfyUI input directory are shared by all invocations of the process.   *)
(* The ComfyUI server, the image host and the filesystem are the           *)
(* environment: each call to them draws its outcome from a small set.      *)
(***************************************************************************)
EXTENDS Integers, Sequences, FiniteSets, TLC

(***************************************************************************)
(* Bounds of the model.                                                    *)
(***************************************************************************)
NInv == 2          \* handler invocations in the life of the process
MaxFrames == 2     \* frame_count values 1..MaxFrames are enumerated
NTokens == 2       \* distinct values of uuid4().hex[:8] that are drawn
FineTime == 2      \* up to this elapsed time a sleep takes its nominal time
SlowCall == 1000   \* the time a slow answer to a call without timeout takes

(***************************************************************************)
(* Program constants.                                                      *)
(***************************************************************************)
max_wait == 120            \* start_comfyui: readiness bound
probe_timeout == 2         \* start_comfyui: timeout=2 of GET /system_stats
probe_interval == 2        \* start_comfyui: time.sleep(2)
timeout == 600             \* wait_for_completion: default timeout
poll_interval == 1         \* wait_for_completion: time.sleep(1)
default_frame_count == 21  \* job_input.get("frame_count", 21)
default_fps == 12          \* job_input.get("fps", 12)

Inv == 1..NInv
Tokens == 1..NTokens
None == 0                  \* the value None of comfyui_process

\* dict.get(key, default)
Get(d, k, default) == IF k \in DOMAIN d THEN d[k] ELSE default

Max(a, b) == IF a >= b THEN a ELSE b

VARIABLES
  env,              \* the run's environment: payloads delivered, server data
  comfyui_process,  \* the module global: None or the Popen object kept
  subprocesses,     \* number of ComfyUI subprocesses launched so far
  ready_seen,       \* some GET /system_stats of this process answered 200
  input_dir,        \* INPUT_DIR: staged file name -> content (NoFile if none)
  pc,               \* position of each invocation in handler()
  job,              \* the job payload of each invocation
  process,          \* start_comfyui: the local `process`
  elapsed,          \* time.time() - start_time of the loop being run
  image_filename,   \* handler: the local image_filename
  workflow,         \* handler: the local workflow (the job graph)
  seed,             \* handler: the local seed
  post_answer,      \* queue_prompt: the local `result`, the body POST /prompt answered
  prompt_id,        \* handler: the local prompt_id
  polled,           \* the id in the URL of the last GET /history/{id} issued
  response,         \* the last HTTP response received by the invocation
  history,          \* handler: the local history
  output_file,      \* handler: the local output_file
  video_base64,     \* handler: the local video_base64
  result,           \* what handler() returned
  exc               \* the exception caught at handler's `except Exception`

vars == <<env, comfyui_process, subprocesses, ready_seen, input_dir, pc, job,
          process, elapsed, image_filename, workflow, seed, post_answer,
          prompt_id, polled, response, history, output_file, video_base64, result, exc>>

(***************************************************************************)
(* Job payloads.  A payload is a dict, modelled as a record whose DOMAIN   *)
(* is the set of keys present.  An image string is a sequence of chunks:   *)
(* a URL starts with the chunk "http://" or "https://", a data URL holds   *)
(* the chunk ",".                                                          *)
(***************************************************************************)
UrlImages == {<<"http://", "host/a.png">>, <<"https://", "host/a.png">>}
B64Images == {<<"QUJD">>, <<"data:image/png;base64", ",", "QUJD">>, <<"QUJ">>}
Images == UrlImages \cup B64Images

Seeds == 0..1              \* a few values of the 32-bit seed range
FrameCounts == 1..MaxFrames
PromptIds == {"p1", "p2"}  \* prompt ids the server hands out

JobInputs ==
  {[prompt |-> "sway"]}
  \cup {[image |-> im] : im \in Images}
  \cup {[image |-> <<"QUJD">>, prompt |-> "sway"]}
  \cup {[image |-> <<"QUJD">>, frame_count |-> f] : f \in FrameCounts}
  \cup {[image |-> <<"QUJD">>, seed |-> s] : s \in Seeds}
  \cup {[image |-> <<"QUJD">>, frame_count |-> f, fps |-> 10, seed |-> s] :
          f \in FrameCounts, s \in Seeds}

AllJobs == {[id |-> "job"]} \cup {[id |-> "job", input |-> ji] : ji \in JobInputs}

\* payloads that differ in the path they take through handler()
CoreJobs ==
  {[id |-> "job"], [id |-> "job", input |-> [prompt |-> "sway"]],
   [id |-> "job", input |-> [image |-> <<"QUJD">>]]}

(***************************************************************************)
(* Job records of GET /history/{id}: a dict with the optional keys status  *)
(* and outputs.  outputs maps node ids to node outputs in insertion order  *)
(* (a sequence); a node output has the optional keys gifs and images, each *)
(* a list of entries with the optional keys filename and subfolder.        *)
(***************************************************************************)
Gif == [filename |-> "loop.webp", subfolder |-> "anim"]
Png == [filename |-> "frame.png"]
Unnamed == [subfolder |-> "anim"]
Blank == [filename |-> ""]

CoreHistories ==
  {[status |-> [status_str |-> "success"], outputs |-> <<[gifs |-> <<Gif>>]>>],
   [status |-> [status_str |-> "error", messages |-> "oom"],
    outputs |-> <<[gifs |-> <<Gif>>]>>]}

AllHistories ==
  CoreHistories
  \cup {[outputs |-> <<n>>] :
          n \in {[gifs |-> <<Gif>>, images |-> <<Png>>],
                 [gifs |-> <<Blank, Gif>>, images |-> <<Png>>],
                 [gifs |-> <<Blank>>, images |-> <<Png>>],
                 [gifs |-> <<>>, images |-> <<Unnamed, Png>>],
                 [images |-> <<Png>>], [text |-> "t"]}}
  \cup {[outputs |-> <<[text |-> "t"], [images |-> <<Png>>], [gifs |-> <<Gif>>]>>],
        [status |-> [completed |-> TRUE], outputs |-> <<[images |-> <<Png>>]>>],
        [status |-> [status_str |-> "error"]], [outputs |-> <<>>],
        [prompt |-> "graph"]}

\* bodies POST /prompt can answer with
PostBodies ==
  {[error |-> "invalid prompt"],
   [error |-> "invalid prompt", node_errors |-> "node 59"],
   [number |-> 3]}
  \cup {[prompt_id |-> p, number |-> 3] : p \in PromptIds}
  \cup {[error |-> "invalid prompt", prompt_id |-> p] : p \in PromptIds}

CorePostBodies ==
  {[error |-> "invalid prompt"], [number |-> 3], [prompt_id |-> "p1", number |-> 3]}

(***************************************************************************)
(* The environment of a run: what the platform delivers to handler() and   *)
(* what the random source, the clock, the server and the disk can yield.   *)
(* ProcessEnv fixes the data to one value of each kind and leaves the      *)
(* interleaving of NInv invocations free; SeqEnv is ProcessEnv on a worker *)
(* that runs one job at a time; JobEnv varies the data met by a single     *)
(* invocation.                                                             *)
(***************************************************************************)
ProcessEnv ==
  [jobs |-> CoreJobs, calls |-> NInv, parallel |-> NInv,
   seeds |-> {0}, prefixes |-> {1},
   tokens |-> {1, 2}, fine |-> 0, took |-> {0}, prompt_ids |-> {"p1"},
   post_bodies |-> CorePostBodies, histories |-> CoreHistories,
   videos |-> {"WEBP"}]
SeqEnv == [ProcessEnv EXCEPT !.parallel = 1]
\* ProcessEnv with the draw of the output-filename prefix left free
PrefixEnv == [ProcessEnv EXCEPT !.prefixes = Tokens]
JobEnv ==
  [jobs |-> AllJobs, calls |-> 1, parallel |-> 1,
   seeds |-> Seeds, prefixes |-> Tokens,
   tokens |-> Tokens, fine |-> FineTime, took |-> {0, SlowCall},
   prompt_ids |-> PromptIds, post_bodies |-> PostBodies,
   histories |-> AllHistories, videos |-> {"WEBP", "ABC"}]

NoFile == "<no file>"
NoJob == [id |-> "none"]
NoResult == [pending |-> TRUE]
NoExc == [type |-> "none", at |-> "none"]
NoResponse == [kind |-> "none"]
NoWorkflow == [loaded |-> FALSE]
NoHistory == [absent |-> TRUE]

Started == {i \in Inv : pc[i] # "idle"}
Running == {i \in Inv : pc[i] \notin {"idle", "returned"}}

\* the locals of an invocation that has not started, or has returned
NoFrame ==
  [pc |-> "idle", job |-> NoJob, process |-> None, elapsed |-> 0,
   image_filename |-> 0, workflow |-> NoWorkflow, seed |-> 0, post_answer |-> NoResponse,
   prompt_id |-> "", polled |-> "",
   response |-> NoResponse, history |-> NoHistory, output_file |-> <<>>,
   video_base64 |-> "", result |-> NoResult, exc |-> NoExc]

InitProcess ==
  /\ comfyui_process = None
  /\ subprocesses = 0
  /\ ready_seen = FALSE
  /\ input_dir = [t \in Tokens |-> NoFile]
  /\ pc = [i \in Inv |-> NoFrame.pc]
  /\ job = [i \in Inv |-> NoFrame.job]
  /\ process = [i \in Inv |-> NoFrame.process]
  /\ elapsed = [i \in Inv |-> NoFrame.elapsed]
  /\ image_filename = [i \in Inv |-> NoFrame.image_filename]
  /\ workflow = [i \in Inv |-> NoFrame.workflow]
  /\ seed = [i \in Inv |-> NoFrame.seed]
  /\ post_answer = [i \in Inv |-> NoFrame.post_answer]
  /\ prompt_id = [i \in Inv |-> NoFrame.prompt_id]
  /\ polled = [i \in Inv |-> NoFrame.polled]
  /\ response = [i \in Inv |-> NoFrame.response]
  /\ history = [i \in Inv |-> NoFrame.history]
  /\ output_file = [i \in Inv |-> NoFrame.output_file]
  /\ video_base64 = [i \in Inv |-> NoFrame.video_base64]
  /\ result = [i \in Inv |-> NoFrame.result]
  /\ exc = [i \in Inv |-> NoFrame.exc]

Init == env = ProcessEnv /\ InitProcess
InitSeq == env = SeqEnv /\ InitProcess
InitJob == env = JobEnv /\ InitProcess
InitPrefix == env = PrefixEnv /\ InitProcess

(***************************************************************************)
(* The locals of invocation i as one record, and the step that replaces    *)
(* them: every action of an invocation ends with SetFrame(i, <new frame>). *)
(***************************************************************************)
Frame(i) ==
  [pc |-> pc[i], job |-> job[i], process |-> process[i],
   elapsed |-> elapsed[i], image_filename |-> image_filename[i],
   workflow |-> workflow[i], seed |-> seed[i], post_answer |-> post_answer[i],
   prompt_id |-> prompt_id[i], polled |-> polled[i],
   response |-> response[i], history |-> history[i],
   output_file |-> output_file[i], video_base64 |-> video_base64[i],
   result |-> result[i], exc |-> exc[i]]

SetFrame(i, f) ==
  /\ pc' = [pc EXCEPT ![i] = f.pc]
  /\ job' = [job EXCEPT ![i] = f.job]
  /\ process' = [process EXCEPT ![i] = f.process]
  /\ elapsed' = [elapsed EXCEPT ![i] = f.elapsed]
  /\ image_filename' = [image_filename EXCEPT ![i] = f.image_filename]
  /\ workflow' = [workflow EXCEPT ![i] = f.workflow]
  /\ seed' = [seed EXCEPT ![i] = f.seed]
  /\ post_answer' = [post_answer EXCEPT ![i] = f.post_answer]
  /\ prompt_id' = [prompt_id EXCEPT ![i] = f.prompt_id]
  /\ polled' = [polled EXCEPT ![i] = f.polled]
  /\ response' = [response EXCEPT ![i] = f.response]
  /\ history' = [history EXCEPT ![i] = f.history]
  /\ output_file' = [output_file EXCEPT ![i] = f.output_file]
  /\ video_base64' = [video_base64 EXCEPT ![i] = f.video_base64]
  /\ result' = [result EXCEPT ![i] = f.result]
  /\ exc' = [exc EXCEPT ![i] = f.exc]

(***************************************************************************)
(* handler(): `return {...}` and `except Exception as e: return            *)
(* {"error": str(e)}`.  On return the locals of the call are gone; what    *)
(* remains is the payload, the result, the exception caught and the record *)
(* of the exchange with POST /prompt and GET /history (the body answered,  *)
(* the id polled, the job record obtained).                                *)
(***************************************************************************)
Returned(f, res, e) ==
  [NoFrame EXCEPT !.pc = "returned", !.job = f.job,
                  !.post_answer = f.post_answer, !.polled = f.polled,
                  !.history = f.history,
                  !.result = res, !.exc = e]

\* Faulty variant of Raised, against which the property is tested: a failed submission is tried again
Raised_retried(f, type, msg, at) ==
  IF at = "queue_prompt"
    THEN [f EXCEPT !.pc = "queue"]
    ELSE Returned(f, [error |-> msg], [type |-> type, at |-> at])

\* an exception of class `type` raised in function `at`, caught by handler
Raised(f, type, msg, at) ==
  Returned(f, [error |-> msg], [type |-> type, at |-> at])

\* a call with no timeout whose peer never answers: the thread stays in it
Blocked(f) == [f EXCEPT !.pc = "blocked"]

\* Faulty variant of HasImage, against which the property is tested: the validation is skipped
HasImage_skipped(job_input) == TRUE

\* handler: `if "image" not in job_input`
HasImage(job_input) == "image" \in DOMAIN job_input

\* handler: `if comfyui_process is None`
NeedsStart(flag) == flag = None

shared == <<comfyui_process, subprocesses, ready_seen, input_dir>>

(***************************************************************************)
(* handler, entry: job["input"], the validation of the payload.            *)
(***************************************************************************)
HandlerEntry(i) ==
  /\ pc[i] = "idle"
  /\ Cardinality(Started) < env.calls
  /\ Cardinality(Running) < env.parallel
  /\ \E j \in env.jobs :
       LET f == [Frame(i) EXCEPT !.job = j] IN
       IF "input" \notin DOMAIN j
         THEN SetFrame(i, Raised(f, "KeyError", "'input'", "handler"))
         ELSE IF ~HasImage(j.input)
           THEN SetFrame(i, Returned(f, [error |-> "Missing required field: image"],
                                     NoExc))
           ELSE SetFrame(i, [f EXCEPT !.pc = "bootstrap"])
  /\ UNCHANGED <<env, shared>>

(***************************************************************************)
(* handler: the bootstrap check, and start_comfyui().                      *)
(***************************************************************************)
BootstrapCheck(i) ==
  /\ pc[i] = "bootstrap"
  /\ IF NeedsStart(comfyui_process)
       THEN SetFrame(i, [Frame(i) EXCEPT !.pc = "start_comfyui"])
       ELSE SetFrame(i, [Frame(i) EXCEPT !.pc = "stage"])
  /\ UNCHANGED <<env, shared>>

\* start_comfyui: subprocess.Popen(...), then start_time = time.time()
Popen(i) ==
  /\ pc[i] = "start_comfyui"
  /\ \/ /\ subprocesses' = subprocesses + 1
        /\ SetFrame(i, [Frame(i) EXCEPT !.pc = "ready_loop",
                                        !.process = subprocesses + 1,
                                        !.elapsed = 0])
     \/ /\ SetFrame(i, Raised(Frame(i), "OSError", "Popen failed",
                              "start_comfyui"))
        /\ UNCHANGED subprocesses
  /\ UNCHANGED <<env, comfyui_process, ready_seen, input_dir>>

\* what GET /system_stats (timeout=2) can do, with the time it takes
ProbeOutcomes ==
  {[kind |-> "response", status |-> 200, took |-> 0],
   [kind |-> "response", status |-> 503, took |-> 0],
   [kind |-> "exception", status |-> 0, took |-> 0],
   [kind |-> "exception", status |-> 0, took |-> probe_timeout]}

\* Faulty variant of IsReady, against which the property is tested: any answer counts as ready
IsReady_anyAnswer(r) == r.kind = "response"

\* start_comfyui: `if response.status_code == 200`
IsReady(r) == r.kind = "response" /\ r.status = 200

\* the server answered the probe with 200
Answered200(r) == r.kind = "response" /\ r.status = 200

\* `while time.time() - start_time < limit`
WithinLimit(e, limit) == e < limit

\* time.sleep(interval) from elapsed time e: the nominal time while the loop
\* is young, or an oversleep up to the limit of the loop
SleepTimes(e, interval, limit) ==
  (IF e < env.fine THEN {interval} ELSE {}) \cup {Max(interval, limit - e)}

\* start_comfyui: one turn of the readiness loop, or the raise after it
ReadyLoop(i) ==
  /\ pc[i] = "ready_loop"
  /\ IF WithinLimit(elapsed[i], max_wait)
       THEN \E r \in ProbeOutcomes :
              LET f == Frame(i) IN
              /\ ready_seen' = (ready_seen \/ Answered200(r))
              /\ IF IsReady(r)
                THEN \* return process; handler: comfyui_process = ...
                     /\ comfyui_process' = process[i]
                     /\ SetFrame(i, [f EXCEPT !.pc = "stage", !.elapsed = 0,
                                              !.process = None])
                ELSE /\ \E d \in SleepTimes(elapsed[i] + r.took,
                                            probe_interval, max_wait) :
                          SetFrame(i, [f EXCEPT !.elapsed = @ + r.took + d])
                     /\ UNCHANGED comfyui_process
       ELSE /\ SetFrame(i, Raised(Frame(i), "RuntimeError",
                                  "ComfyUI server failed to start within timeout",
                                  "start_comfyui"))
            /\ UNCHANGED <<ready_seen, comfyui_process>>
  /\ UNCHANGED <<env, subprocesses, input_dir>>

(***************************************************************************)
(* save_input_image(image_data, filename)                                  *)
(***************************************************************************)
\* image_data.startswith("http://") or image_data.startswith("https://")
IsUrl(image_data) == Head(image_data) \in {"http://", "https://"}

\* `if "," in image_data: image_data = image_data.split(",", 1)[1]`
StripDataUrl(image_data) ==
  IF \E k \in 1..Len(image_data) : image_data[k] = ","
    THEN LET k == CHOOSE k \in 1..Len(image_data) :
                    /\ image_data[k] = ","
                    /\ \A m \in 1..(k - 1) : image_data[m] # ","
         IN SubSeq(image_data, k + 1, Len(image_data))
    ELSE image_data

\* base64.b64decode: the bytes, or binascii.Error on incorrect padding
B64Decode(text) ==
  IF text = <<"QUJD">> THEN [ok |-> TRUE, bytes |-> "ABC"]
  ELSE [ok |-> FALSE, bytes |-> ""]

\* response.raise_for_status(): raises HTTPError for 4xx and 5xx
RaisesForStatus(status) == 400 <= status /\ status < 600

\* final answers of the image host to requests.get(image_data)
ImageResponses ==
  {[kind |-> "response", status |-> st, content |-> b] :
     st \in {200, 304, 404}, b \in {"PNG1", "PNG2"}}

\* f.write(response.content)
Written(r) == r.content

\* handler: image_filename = f"input_{uuid.uuid4().hex[:8]}.png", then
\* save_input_image: for a URL GET (no timeout), raise_for_status, write;
\* for inline data strip the data-URL header, decode, write
Stage(i) ==
  /\ pc[i] = "stage"
  /\ \E tok \in env.tokens :
       LET f == [Frame(i) EXCEPT !.image_filename = tok]
           image_data == job[i].input.image
           d == B64Decode(StripDataUrl(image_data))
       IN
       \/ /\ IsUrl(image_data)
          /\ \/ /\ SetFrame(i, Raised(f, "ConnectionError", "fetch failed",
                                      "save_input_image"))
                /\ UNCHANGED input_dir
             \/ /\ SetFrame(i, Blocked(f))
                /\ UNCHANGED input_dir
             \/ \E r \in ImageResponses :
                  IF RaisesForStatus(r.status)
                    THEN /\ SetFrame(i, Raised(f, "HTTPError", "bad status",
                                               "save_input_image"))
                         /\ UNCHANGED input_dir
                    ELSE /\ input_dir' = [input_dir EXCEPT ![tok] = Written(r)]
                         /\ SetFrame(i, [f EXCEPT !.pc = "prepare",
                                                  !.response = r])
       \/ /\ ~IsUrl(image_data)
          /\ IF d.ok
               THEN /\ input_dir' = [input_dir EXCEPT ![tok] = d.bytes]
                    /\ SetFrame(i, [f EXCEPT !.pc = "prepare"])
               ELSE /\ SetFrame(i, Raised(f, "binascii.Error",
                                          "Incorrect padding",
                                          "save_input_image"))
                    /\ UNCHANGED input_dir
       \/ \* makedirs / open / write fail
          /\ SetFrame(i, Raised(f, "OSError", "cannot write", "save_input_image"))
          /\ UNCHANGED input_dir
  /\ UNCHANGED <<env, comfyui_process, subprocesses, ready_seen>>

(***************************************************************************)
(* load_workflow() and modify_workflow(workflow, params)                   *)
(***************************************************************************)
\* the template file: the nine coordinates modify_workflow writes, one more
\* input of node 126 and one more node
Template ==
  [n52_image |-> "example.png", n102_image |-> "example.png",
   n6_text |-> "template prompt", n3_seed |-> 7, n59_length |-> 81,
   n69_length |-> 80, n61_temporal_size |-> 64, n126_fps |-> 16,
   n126_filename_prefix |-> <<"template">>, n126_lossless |-> FALSE,
   n37_unet_name |-> "wan2.1.safetensors"]

\* Faulty variant of LoopTrim, against which the property is tested: the last frame is kept
LoopTrim_keepsLast(frame_count) == frame_count

\* workflow["69"]["inputs"]["length"] = frame_count - 1
LoopTrim(frame_count) == frame_count - 1

\* workflow["61"]["inputs"]["temporal_size"] = frame_count + 7
TemporalSize(frame_count) == frame_count + 7

\* Faulty variant of modify_workflow, against which the property is tested: the inputs of node 126 are replaced as a whole
modify_workflow_clobbers(wf, params, rnd, tok) ==
  LET image == Get(params, "image_filename", <<"input.png">>)
      frame_count == Get(params, "frame_count", default_frame_count)
  IN [wf EXCEPT !.n52_image = image,
                !.n102_image = image,
                !.n6_text = Get(params, "prompt", ""),
                !.n3_seed = Get(params, "seed", rnd),
                !.n59_length = frame_count,
                !.n69_length = LoopTrim(frame_count),
                !.n61_temporal_size = TemporalSize(frame_count),
                !.n126_fps = Get(params, "fps", default_fps),
                !.n126_filename_prefix = <<"seamless_loop", tok>>,
                !.n126_lossless = TRUE]

\* Faulty variant of modify_workflow, against which the property is tested: node 3 gets the function's own draw
modify_workflow_ownSeed(wf, params, rnd, tok) ==
  LET image == Get(params, "image_filename", <<"input.png">>)
      frame_count == Get(params, "frame_count", default_frame_count)
  IN [wf EXCEPT !.n52_image = image,
                !.n102_image = image,
                !.n6_text = Get(params, "prompt", ""),
                !.n3_seed = rnd,
                !.n59_length = frame_count,
                !.n69_length = LoopTrim(frame_count),
                !.n61_temporal_size = TemporalSize(frame_count),
                !.n126_fps = Get(params, "fps", default_fps),
                !.n126_filename_prefix = <<"seamless_loop", tok>>]

\* rnd is the value random.randint draws for the default of params.get("seed")
\* (a draw of its own, made whether or not params holds a seed), tok the
\* value of uuid.uuid4().hex[:8]
modify_workflow(wf, params, rnd, tok) ==
  LET image == Get(params, "image_filename", <<"input.png">>)
      frame_count == Get(params, "frame_count", default_frame_count)
  IN [wf EXCEPT !.n52_image = image,
                !.n102_image = image,
                !.n6_text = Get(params, "prompt", ""),
                !.n3_seed = Get(params, "seed", rnd),
                !.n59_length = frame_count,
                !.n69_length = LoopTrim(frame_count),
                !.n61_temporal_size = TemporalSize(frame_count),
                !.n126_fps = Get(params, "fps", default_fps),
                !.n126_filename_prefix = <<"seamless_loop", tok>>]

\* handler: seed, params, load_workflow, modify_workflow
Prepare(i) ==
  /\ pc[i] = "prepare"
  /\ \/ \E rnd \in env.seeds, own \in env.seeds, tok \in env.prefixes :
          LET job_input == job[i].input
              sd == Get(job_input, "seed", rnd)
              params ==
                [image_filename |-> <<"input", image_filename[i], "png">>,
                 prompt |-> Get(job_input, "prompt", ""),
                 seed |-> sd,
                 frame_count |-> Get(job_input, "frame_count", default_frame_count),
                 fps |-> Get(job_input, "fps", default_fps)]
          IN SetFrame(i, [Frame(i) EXCEPT
                            !.pc = "queue", !.seed = sd,
                            !.workflow = modify_workflow(Template, params, own, tok)])
     \/ \* the template cannot be opened or parsed
        SetFrame(i, Raised(Frame(i), "OSError", "cannot load workflow",
                           "load_workflow"))
  /\ UNCHANGED <<env, shared>>

(***************************************************************************)
(* queue_prompt(workflow)                                                  *)
(***************************************************************************)
\* Faulty variant of Rejected, against which the property is tested: the error key is not looked at
Rejected_ignored(body) == FALSE

\* `if "error" in result`
Rejected(body) == "error" \in DOMAIN body

\* `if "prompt_id" not in result`
HasPromptId(body) == "prompt_id" \in DOMAIN body

QueuePrompt(i) ==
  /\ pc[i] = "queue"
  /\ LET f == Frame(i) IN
     \/ SetFrame(i, Raised(f, "ConnectionError", "post failed", "queue_prompt"))
     \/ SetFrame(i, Raised(f, "JSONDecodeError", "not JSON", "queue_prompt"))
     \/ SetFrame(i, Blocked(f))
     \/ \E body \in env.post_bodies :
          IF Rejected(body)
            THEN SetFrame(i, [Raised(f, "RuntimeError", "ComfyUI rejected prompt",
                                     "queue_prompt")
                                EXCEPT !.post_answer = body])
            ELSE IF ~HasPromptId(body)
              THEN SetFrame(i, [Raised(f, "RuntimeError", "No prompt_id in response",
                                       "queue_prompt")
                                  EXCEPT !.post_answer = body])
              ELSE \* wait_for_completion: start_time = time.time()
                   SetFrame(i, [f EXCEPT !.pc = "poll", !.post_answer = body,
                                         !.prompt_id = body.prompt_id,
                                         !.elapsed = 0])
  /\ UNCHANGED <<env, shared>>

(***************************************************************************)
(* wait_for_completion(prompt_id, timeout=600)                             *)
(***************************************************************************)
\* what GET /history/{prompt_id} can answer: a connection error, an error
\* status, or 200 with a mapping from the ids of finished prompts to records
HistoryMaps ==
  {[p \in K |-> h] : K \in SUBSET env.prompt_ids, h \in env.histories}

PollResponses ==
  {[kind |-> "exception", class |-> "ConnectionError", status |-> 0, body |-> <<>>],
   [kind |-> "response", class |-> "", status |-> 500, body |-> <<>>]}
  \cup {[kind |-> "response", class |-> "", status |-> 200, body |-> m] :
          m \in HistoryMaps}

\* Faulty variant of Swallowed, against which the property is tested: the except clause is missing
Swallowed_nothing(r) == FALSE

\* `except requests.exceptions.RequestException: pass`
Swallowed(r) == r.class \in {"ConnectionError", "Timeout", "HTTPError"}

\* `if response.status_code == 200: history = response.json();
\*  if prompt_id in history`
Completed(r, id) ==
  /\ r.kind = "response"
  /\ r.status = 200
  /\ id \in DOMAIN r.body

\* one turn of the polling loop, or the raise after it.  The GET has no
\* timeout: it answers at once, answers after a long time, or never answers.
Poll(i) ==
  /\ pc[i] = "poll"
  /\ IF WithinLimit(elapsed[i], timeout)
       THEN LET f == [Frame(i) EXCEPT !.polled = prompt_id[i]] IN
            \/ SetFrame(i, Blocked(f))
            \/ \E r \in PollResponses, took \in env.took :
                 IF r.kind = "exception" /\ ~Swallowed(r)
                   THEN SetFrame(i, Raised(f, r.class, "poll failed",
                                           "wait_for_completion"))
                   ELSE IF Completed(r, prompt_id[i])
                     THEN SetFrame(i, [f EXCEPT !.pc = "extract", !.response = r,
                                                !.elapsed = @ + took,
                                                !.history = r.body[prompt_id[i]]])
                     ELSE \E d \in SleepTimes(elapsed[i] + took, poll_interval,
                                              timeout) :
                            SetFrame(i, [f EXCEPT !.elapsed = @ + took + d])
       ELSE SetFrame(i, [Raised(Frame(i), "TimeoutError", "did not complete",
                                "wait_for_completion")
                           EXCEPT !.elapsed = elapsed[i]])
  /\ UNCHANGED <<env, shared>>

(***************************************************************************)
(* get_output_file(history)                                                *)
(***************************************************************************)
\* index of the first entry of a list whose filename is truthy, 0 if none
FirstNamed(list) ==
  LET named == {k \in 1..Len(list) : Get(list[k], "filename", "") # ""}
  IN IF named = {} THEN 0 ELSE CHOOSE k \in named : \A m \in named : k <= m

\* os.path.join(OUTPUT_DIR, subfolder, filename)
PathOf(entry) == <<"output", Get(entry, "subfolder", ""), entry.filename>>

\* the path one node of the manifest yields, <<>> if none: `if "gifs" in
\* node_output: for ...: return`, then `if "images" in node_output: ...`
NodeFile(node) ==
  IF "gifs" \in DOMAIN node /\ FirstNamed(node.gifs) # 0
    THEN PathOf(node.gifs[FirstNamed(node.gifs)])
    ELSE IF "images" \in DOMAIN node /\ FirstNamed(node.images) # 0
      THEN PathOf(node.images[FirstNamed(node.images)])
      ELSE <<>>

\* Faulty variant of ExecutionFailed, against which the property is tested: the status is not looked at
ExecutionFailed_unchecked(h) == FALSE

\* `if "status" in history: if status.get("status_str") == "error"`
ExecutionFailed(h) ==
  "status" \in DOMAIN h /\ Get(h.status, "status_str", "") = "error"

get_output_file(h) ==
  IF ExecutionFailed(h)
    THEN [ok |-> FALSE, type |-> "RuntimeError",
          msg |-> "ComfyUI execution failed", path |-> <<>>]
    ELSE LET outputs == Get(h, "outputs", <<>>)
             yielding == {k \in 1..Len(outputs) : NodeFile(outputs[k]) # <<>>}
         IN IF yielding = {}
              THEN [ok |-> FALSE, type |-> "ValueError",
                    msg |-> "No output file found in history", path |-> <<>>]
              ELSE [ok |-> TRUE, type |-> "", msg |-> "",
                    path |-> NodeFile(outputs[CHOOSE k \in yielding :
                                                \A m \in yielding : k <= m])]

\* handler: output_file = get_output_file(history)
Extract(i) ==
  /\ pc[i] = "extract"
  /\ LET o == get_output_file(history[i]) IN
     IF o.ok
       THEN SetFrame(i, [Frame(i) EXCEPT !.pc = "encode", !.output_file = o.path])
       ELSE SetFrame(i, Raised(Frame(i), o.type, o.msg, "get_output_file"))
  /\ UNCHANGED <<env, shared>>

(***************************************************************************)
(* encode_file_base64(filepath), the cleanup and the return                *)
(***************************************************************************)
\* base64.b64encode(bytes).decode("utf-8")
B64Encode(bytes) ==
  IF bytes = "WEBP" THEN "V0VCUA==" ELSE IF bytes = "ABC" THEN "QUJD" ELSE "?"

\* handler: video_base64 = encode_file_base64(output_file)
Encode(i) ==
  /\ pc[i] = "encode"
  /\ LET f == Frame(i) IN
     \/ \E bytes \in env.videos :
          SetFrame(i, [f EXCEPT !.pc = "cleanup",
                                !.video_base64 = B64Encode(bytes)])
     \/ SetFrame(i, Raised(f, "FileNotFoundError", "no such file",
                           "encode_file_base64"))
  /\ UNCHANGED <<env, shared>>

\* Faulty variant of Cleanup, against which the property is tested: the OSError of os.remove is not caught
Cleanup_escalates(i) ==
  /\ pc[i] = "cleanup"
  /\ \/ /\ input_dir[image_filename[i]] # NoFile
        /\ input_dir' = [input_dir EXCEPT ![image_filename[i]] = NoFile]
        /\ SetFrame(i, Returned(Frame(i),
                                [video |-> video_base64[i], seed |-> seed[i]],
                                NoExc))
     \/ /\ UNCHANGED input_dir
        /\ SetFrame(i, Returned(Frame(i), [error |-> "cannot remove"],
                                [type |-> "OSError", at |-> "handler"]))
  /\ UNCHANGED <<env, comfyui_process, subprocesses, ready_seen>>

\* handler: `try: os.remove(...) except OSError: pass`, then
\* `return {"video": video_base64, "seed": seed}`
Cleanup(i) ==
  /\ pc[i] = "cleanup"
  /\ \/ /\ input_dir[image_filename[i]] # NoFile
        /\ input_dir' = [input_dir EXCEPT ![image_filename[i]] = NoFile]
     \/ \* OSError: the file is gone already, or cannot be removed
        UNCHANGED input_dir
  /\ SetFrame(i, Returned(Frame(i),
                          [video |-> video_base64[i], seed |-> seed[i]], NoExc))
  /\ UNCHANGED <<env, comfyui_process, subprocesses, ready_seen>>

\* the steps of invocation i
Step(i) ==
  \/ HandlerEntry(i)
  \/ BootstrapCheck(i)
  \/ Popen(i)
  \/ ReadyLoop(i)
  \/ Stage(i)
  \/ Prepare(i)
  \/ QueuePrompt(i)
  \/ Poll(i)
  \/ Extract(i)
  \/ Encode(i)
  \/ Cleanup(i)

Next ==
  \E i \in Inv :
    \/ HandlerEntry(i)
    \/ BootstrapCheck(i)
    \/ Popen(i)
    \/ ReadyLoop(i)
    \/ Stage(i)
    \/ Prepare(i)
    \/ QueuePrompt(i)
    \/ Poll(i)
    \/ Extract(i)
    \/ Encode(i)
    \/ Cleanup(i)

Spec == Init /\ [][Next]_vars
SeqSpec == InitSeq /\ [][Next]_vars
JobSpec == InitJob /\ [][Next]_vars
PrefixSpec == InitPrefix /\ [][Next]_vars

(***************************************************************************)
(* Claims.                                                                 *)
(***************************************************************************)
AfterBootstrap ==
  {"stage", "prepare", "queue", "poll", "extract", "encode", "cleanup", "blocked"}

WellFormed(res) == DOMAIN res = {"video", "seed"} \/ DOMAIN res = {"error"}

\* C1: for every payload and every behaviour of the server and the disk,
\* handler terminates with {video, seed} or {error}: an invocation that has
\* started has returned a well-formed result or can still take a step.
C1_HandlerAlwaysReturns ==
  \A i \in Inv :
    \/ pc[i] = "idle"
    \/ pc[i] = "returned" /\ WellFormed(result[i])
    \/ pc[i] # "returned" /\ ENABLED Step(i)

\* C2: under every interleaving of concurrent invocations the bootstrap
\* check never lets two invocations both be inside start_comfyui.
C2_OneInvocationStartsServer ==
  Cardinality({i \in Inv : pc[i] \in {"start_comfyui", "ready_loop"}}) <= 1

\* State part of C3: work after the bootstrap implies an observed 200.
C3_Ready ==
  /\ \A i \in Inv :
       (pc[i] \in AfterBootstrap \/ post_answer[i] # NoResponse)
         => ready_seen /\ comfyui_process # None
  /\ (\E t \in Tokens : input_dir[t] # NoFile) => ready_seen
  /\ comfyui_process # None
       => ready_seen /\ comfyui_process \in 1..subprocesses

\* Step part of C3: a set flag stays set and is reused without a launch.
C3_Reuse ==
  /\ comfyui_process # None => comfyui_process' # None
  /\ \A i \in Inv :
       (pc[i] = "bootstrap" /\ comfyui_process # None /\ pc'[i] # pc[i])
         => pc'[i] = "stage" /\ subprocesses' = subprocesses

\* C3: no invocation stages an input or posts a prompt before a 200 answer
\* to GET /system_stats was seen; comfyui_process is set only to a launched
\* process after such an answer; once it is set it stays set, and an
\* invocation that finds it set goes on to staging without launching.
C3_ReadyBeforeUse == []C3_Ready /\ [][C3_Reuse]_vars

\* C3 case: after one invocation returned a video, another reuses the server.
C3_Witness ==
  \E i, j \in Inv :
    /\ pc[i] = "returned" /\ "video" \in DOMAIN result[i]
    /\ pc[j] = "stage"
    /\ subprocesses = 1

BootstrapTimedOut(i) ==
  /\ pc[i] = "returned"
  /\ exc[i] = [type |-> "RuntimeError", at |-> "start_comfyui"]

\* C4: after readiness was not seen within max_wait the invocation returns
\* {error} and no later invocation launches another subprocess: at most one
\* subprocess is launched in the life of the process.
C4_BootstrapFailureIsPermanent ==
  (\E i \in Inv : BootstrapTimedOut(i)) => subprocesses <= 1

\* C5: when the job id never appears, TimeoutError is raised once about
\* `timeout` has elapsed: not before it, and at most one poll interval after.
C5_TimeoutAtAboutT ==
  \A i \in Inv :
    exc[i].type = "TimeoutError"
      => timeout <= elapsed[i] /\ elapsed[i] <= timeout + poll_interval

C7_PollOnlyAfterSubmission ==
  \A i \in Inv :
    /\ polled[i] # ""
         => /\ "error" \notin DOMAIN post_answer[i]
            /\ "prompt_id" \in DOMAIN post_answer[i]
            /\ polled[i] = post_answer[i].prompt_id
    /\ (post_answer[i] # NoResponse
          /\ ("error" \in DOMAIN post_answer[i]
                \/ "prompt_id" \notin DOMAIN post_answer[i]))
         => /\ pc[i] = "returned"
            /\ DOMAIN result[i] = {"error"}
            /\ exc[i] = [type |-> "RuntimeError", at |-> "queue_prompt"]
            /\ polled[i] = ""

\* C7 case: an accepted submission is being polled under its own id.
C7_Witness ==
  \E i \in Inv : pc[i] = "poll" /\ polled[i] = "p2" /\ elapsed[i] > 0

\* C8: every job graph handler submits has, for the frame_count f of the
\* request (21 when absent), node 59 length = f, node 69 length = f - 1 and
\* node 61 temporal_size = f + 7.
C8_DerivedFields ==
  \A i \in Inv :
    workflow[i] # NoWorkflow
      => LET f == IF "frame_count" \in DOMAIN job[i].input
                    THEN job[i].input.frame_count ELSE 21
         IN /\ workflow[i].n59_length = f
            /\ workflow[i].n69_length = f - 1
            /\ workflow[i].n61_temporal_size = f + 7

\* C8 case: a request with an explicit frame_count was submitted.
C8_Witness ==
  \E i \in Inv :
    /\ pc[i] = "poll"
    /\ "frame_count" \in DOMAIN job[i].input
    /\ job[i].input.frame_count = MaxFrames
    /\ workflow[i].n69_length = MaxFrames - 1

\* C9: for an image given as a URL a file is written only for a 2xx answer,
\* and then holds the body of the answer.
C9_OnlySuccessIsWritten ==
  \A i \in Inv :
    (pc[i] = "prepare" /\ IsUrl(job[i].input.image))
      => /\ response[i].status \in 200..299
         /\ input_dir[image_filename[i]] = response[i].content

NoImagePayload(j) == "input" \in DOMAIN j /\ "image" \notin DOMAIN j.input

\* State part of C10: the payload is answered with the validation error.
C10_Rejected ==
  \A i \in Inv :
    NoImagePayload(job[i])
      => /\ pc[i] = "returned"
         /\ result[i] = [error |-> "Missing required field: image"]
         /\ post_answer[i] = NoResponse /\ polled[i] = ""
         /\ response[i] = NoResponse

\* Step part of C10: the answering step touches nothing shared.
C10_NoWork ==
  \A i \in Inv :
    (pc[i] = "idle" /\ NoImagePayload(job'[i]))
      => UNCHANGED <<comfyui_process, subprocesses, ready_seen, input_dir>>

\* C10: a payload without the image field is answered with {error: 'Missing
\* required field: image'} in one step that launches nothing, calls nothing,
\* writes nothing and leaves comfyui_process alone.
C10_MissingImageDoesNoWork == []C10_Rejected /\ [][C10_NoWork]_vars

\* C10 case: the validation error was returned with no server launched.
C10_Witness ==
  \E i \in Inv :
    /\ result[i] = [error |-> "Missing required field: image"]
    /\ comfyui_process = None
    /\ subprocesses = 0

\* the job record carries a status whose status_str is 'error'
MarkedError(h) ==
  /\ "status" \in DOMAIN h
  /\ "status_str" \in DOMAIN h.status
  /\ h.status.status_str = "error"

\* the manifest of the job record has a node with a named file
HasUsableFile(h) ==
  /\ "outputs" \in DOMAIN h
  /\ \E k \in 1..Len(h.outputs) :
       \E key \in {"gifs", "images"} \cap DOMAIN h.outputs[k] :
         \E e \in 1..Len(h.outputs[k][key]) :
           /\ "filename" \in DOMAIN h.outputs[k][key][e]
           /\ h.outputs[k][key][e].filename # ""

\* C11: a job record whose status_str is 'error' never gets past
\* get_output_file, whatever its manifest holds: the invocation that
\* obtained it ends with the RuntimeError of the status check as {error},
\* never with {video}.
C11_ErrorStatusIsFatal ==
  \A i \in Inv :
    MarkedError(history[i])
      => /\ pc[i] \in {"extract", "returned"}
         /\ output_file[i] = <<>>
         /\ pc[i] = "returned"
              => /\ result[i] = [error |-> "ComfyUI execution failed"]
                 /\ exc[i] = [type |-> "RuntimeError", at |-> "get_output_file"]

\* C11 case: the errored record that was refused had a usable output file.
C11_Witness ==
  \E i \in Inv :
    /\ pc[i] = "returned"
    /\ MarkedError(history[i])
    /\ HasUsableFile(history[i])
    /\ DOMAIN result[i] = {"error"}

\* the entries of an output list that have a non-empty filename
NamedEntries(list) ==
  {e \in 1..Len(list) : "filename" \in DOMAIN list[e] /\ list[e].filename # ""}

\* the node output has an entry with a non-empty filename in some list
YieldsFile(node) ==
  \E key \in {"gifs", "images"} \cap DOMAIN node : NamedEntries(node[key]) # {}

\* the first node in manifest order that yields a usable filename, 0 if none
FirstYielding(outputs) ==
  IF \E k \in 1..Len(outputs) : YieldsFile(outputs[k])
    THEN CHOOSE k \in 1..Len(outputs) :
           /\ YieldsFile(outputs[k])
           /\ \A m \in 1..(k - 1) : ~YieldsFile(outputs[m])
    ELSE 0

\* the path under the output root an entry of an output list stands for
EntryPath(entry) ==
  <<"output", IF "subfolder" \in DOMAIN entry THEN entry.subfolder ELSE "",
    entry.filename>>

\* C12: when the first node in manifest order that yields a usable filename
\* has both a gifs list and an images list, the file resolved is the first
\* entry of its gifs list with a non-empty filename, not an images entry.
C12_AnimatedPreferred ==
  \A i \in Inv :
    (pc[i] = "encode" /\ "outputs" \in DOMAIN history[i])
      => LET k == FirstYielding(history[i].outputs)
             node == history[i].outputs[k]
         IN (k # 0 /\ {"gifs", "images"} \subseteq DOMAIN node)
              => \E e \in NamedEntries(node.gifs) :
                   /\ \A m \in NamedEntries(node.gifs) : e <= m
                   /\ output_file[i] = EntryPath(node.gifs[e])

\* invocation i has chosen its staged filename and has not returned
HasStagedName(i) == image_filename[i] # NoFrame.image_filename

\* C13: invocations of one process never use the same staged input
\* filename, so none overwrites or deletes the input file of another whose
\* job is in flight.
C13_DisjointStagedFiles ==
  \A i, j \in Inv :
    (i # j /\ HasStagedName(i) /\ HasStagedName(j))
      => image_filename[i] # image_filename[j]

\* C14: no two parametrizations made in one process write the same output
\* filename prefix into node 126.
C14_PrefixesDistinct ==
  \A i, j \in Inv :
    (i # j /\ workflow[i] # NoWorkflow /\ workflow[j] # NoWorkflow)
      => workflow[i].n126_filename_prefix # workflow[j].n126_filename_prefix

\* the order of the positions of handler(): bootstrap, stage, parametrize,
\* submit, poll, extract, encode, cleanup
Rank(p) ==
  CASE p = "idle" -> 0
    [] p = "bootstrap" -> 1
    [] p = "start_comfyui" -> 2
    [] p = "ready_loop" -> 3
    [] p = "stage" -> 4
    [] p = "prepare" -> 5
    [] p = "queue" -> 6
    [] p = "poll" -> 7
    [] p = "extract" -> 8
    [] p = "encode" -> 9
    [] p = "cleanup" -> 10
    [] p = "blocked" -> 11
    [] p = "returned" -> 12

\* one step, seen from invocation i: it never goes back to an earlier
\* position; a launch, a staging or a submission is left by the step that
\* makes it; the step in which an exception is raised is the return of
\* {error}; a returned invocation does nothing more.
C15_Linear(i) ==
  /\ Rank(pc'[i]) >= Rank(pc[i])
  /\ (pc[i] \in {"start_comfyui", "stage", "queue"} /\ Frame(i)' # Frame(i))
       => Rank(pc'[i]) > Rank(pc[i])
  /\ (exc[i] = NoExc /\ exc'[i] # NoExc)
       => /\ pc'[i] = "returned"
          /\ DOMAIN result'[i] = {"error"}
          /\ polled'[i] = polled[i]
          /\ post_answer'[i] # post_answer[i] => pc[i] = "queue"
          /\ subprocesses' = subprocesses
  /\ pc[i] = "returned" => Frame(i)' = Frame(i)

\* a subprocess is launched only by the step that leaves start_comfyui's
\* Popen, and a file is staged only by the step that leaves the staging
C15_Once ==
  /\ subprocesses' # subprocesses
       => /\ subprocesses' = subprocesses + 1
          /\ \E i \in Inv : pc[i] = "start_comfyui" /\ pc'[i] = "ready_loop"
  /\ (\E t \in Tokens : input_dir'[t] \notin {input_dir[t], NoFile})
       => \E i \in Inv : pc[i] = "stage" /\ pc'[i] = "prepare"

\* C15: nothing is retried within an invocation: the server is launched at
\* most once, the input staged at most once, POST /prompt issued at most
\* once, and the first failure is followed by the return of {error} with no
\* further call to the server.
C15_NoRetry == [][C15_Once /\ \A i \in Inv : C15_Linear(i)]_vars

\* C15 case: a rejected submission after one launch, returned without a poll.
C15_Witness ==
  \E i \in Inv :
    /\ pc[i] = "returned"
    /\ exc[i] = [type |-> "RuntimeError", at |-> "queue_prompt"]
    /\ "error" \in DOMAIN post_answer[i]
    /\ polled[i] = ""
    /\ subprocesses = 1

\* C16: once the output file is resolved and encoded, the invocation
\* returns {video, seed} with the encoded video, whether the staged input
\* file gets deleted or not.
C16_CleanupNeverEscalates ==
  [][\A i \in Inv :
       (pc[i] = "cleanup" /\ pc'[i] # "cleanup")
         => /\ pc'[i] = "returned"
            /\ result'[i] = [video |-> video_base64[i], seed |-> seed[i]]
            /\ exc'[i] = NoExc]_vars

\* C16 case: {video, seed} was returned although the staged file is still
\* in the input directory (the only invocation failed to delete it).
C16_Witness ==
  /\ \E i \in Inv : pc[i] = "returned" /\ DOMAIN result[i] = {"video", "seed"}
  /\ \A i \in Inv : pc[i] \in {"idle", "returned"}
  /\ \E t \in Tokens : input_dir[t] # NoFile

\* the list of a node that is searched when only the first list found is:
\* the gifs list when the node has one, else the images list
FirstList(node) ==
  IF "gifs" \in DOMAIN node THEN node.gifs
  ELSE IF "images" \in DOMAIN node THEN node.images
  ELSE <<>>

\* the path a node contributes then: that of the first named entry of the
\* list searched, <<>> when it has none
FirstListFile(node) ==
  LET named == NamedEntries(FirstList(node))
  IN IF named = {} THEN <<>>
     ELSE EntryPath(FirstList(node)[CHOOSE e \in named : \A m \in named : e <= m])

\* the manifest of a job record, in manifest order
ManifestOf(h) == IF "outputs" \in DOMAIN h THEN h.outputs ELSE <<>>

\* C17: per node only the first list found is searched (images only when
\* the node has no gifs list); the file resolved is that of the first node
\* in manifest order contributing one, and ValueError is raised exactly
\* when no node contributes one.
C17_FirstListOnly ==
  \A i \in Inv :
    LET outputs == ManifestOf(history[i])
        contributing == {k \in 1..Len(outputs) : FirstListFile(outputs[k]) # <<>>}
    IN /\ pc[i] = "encode"
            => \E k \in contributing :
                 /\ \A m \in contributing : k <= m
                 /\ output_file[i] = FirstListFile(outputs[k])
       /\ (pc[i] = "returned" /\ exc[i].at = "get_output_file"
             /\ exc[i].type = "ValueError")
            => contributing = {}

\* the nine coordinates modify_workflow is to write
WrittenCoordinates ==
  {"n52_image", "n102_image", "n6_text", "n3_seed", "n59_length",
   "n69_length", "n61_temporal_size", "n126_fps", "n126_filename_prefix"}

\* State part of C18: the graph differs from the template at most at the
\* nine coordinates, and nodes 52 and 102 hold the staged filename.
C18_Frame ==
  \A i \in Inv :
    workflow[i] # NoWorkflow
      => /\ DOMAIN workflow[i] = DOMAIN Template
         /\ \A c \in DOMAIN Template \ WrittenCoordinates :
              workflow[i][c] = Template[c]
         /\ workflow[i].n52_image = <<"input", image_filename[i], "png">>
         /\ workflow[i].n102_image = workflow[i].n52_image

\* Step part of C18: the parametrization touches no state of the process.
C18_NoGlobal ==
  \A i \in Inv :
    (pc[i] = "prepare" /\ pc'[i] # "prepare")
      => UNCHANGED <<comfyui_process, subprocesses, ready_seen, input_dir>>

\* C18: modify_workflow changes the workflow it is given at the nine fixed
\* coordinates only, gives nodes 52 and 102 the same staged filename, and
\* modifies no global state.
C18_OnlyNineCoordinates == []C18_Frame /\ [][C18_NoGlobal]_vars

\* C18 case: a parametrized graph carrying the prompt of the request.
C18_Witness ==
  \E i \in Inv :
    /\ pc[i] = "queue"
    /\ workflow[i].n6_text = "sway"
    /\ workflow[i].n6_text # Template.n6_text
    /\ workflow[i].n126_lossless = Template.n126_lossless

\* C19: a staged input file is deleted on every exit path, so when every
\* invocation made so far has returned {error} (no deletion of the success
\* path can have failed) no staged file is left in the input directory.
C19_CleanupOnEveryExit ==
  (\A i \in Inv :
     \/ pc[i] = "idle"
     \/ pc[i] = "returned" /\ DOMAIN result[i] = {"error"})
    => \A t \in Tokens : input_dir[t] = NoFile

\* State part of C20: node 3 of the graph holds the seed handler chose,
\* which is the seed of the request when it has one.
C20_Chosen ==
  \A i \in Inv :
    /\ workflow[i] # NoWorkflow
         => /\ workflow[i].n3_seed = seed[i]
            /\ "seed" \in DOMAIN job[i].input => seed[i] = job[i].input.seed
    /\ (pc[i] = "returned" /\ "seed" \in DOMAIN result[i]
          /\ "seed" \in DOMAIN job[i].input)
         => result[i].seed = job[i].input.seed

\* Step part of C20: the seed returned is the seed of node 3 of the graph
\* that was submitted.
C20_Returned ==
  \A i \in Inv :
    (pc'[i] = "returned" /\ pc[i] # "returned" /\ "seed" \in DOMAIN result'[i])
      => /\ workflow[i] # NoWorkflow
         /\ post_answer[i] # NoResponse
         /\ result'[i].seed = workflow[i].n3_seed

\* C20: in every successful invocation the seed returned equals the seed
\* written into node 3 of the submitted graph, whether the request supplied
\* it or handler generated it.
C20_SeedReturnedIsSeedSubmitted == []C20_Chosen /\ [][C20_Returned]_vars

\* C20 case: a success whose seed was generated by handler.
C20_Witness ==
  \E i \in Inv :
    /\ pc[i] = "returned"
    /\ DOMAIN result[i] = {"video", "seed"}
    /\ "seed" \notin DOMAIN job[i].input
    /\ result[i].seed = 1

====
